---- MODULE Spec2Model ----
(***************************************************************************)
(* Model of get_size_and_count_of_objects.py: the unit-scaling function    *)
(* calculate_size, the connection bootstrap create_connection_and_test and *)
(* the paginated aggregation loop of the main script.                      *)
(*                                                                         *)
(* Byte counts handed to calculate_size are Python integers of arbitrary   *)
(* size; they are written here as big-endian sequences of base-1024 digits *)
(* without leading zeros (<<>> is 0), so that counts beyond 2^31 can be    *)
(* handled.  A Python float is a digit sequence with a number of digits    *)
(* after the point, holding at most 53 significant bits.                   *)
(***************************************************************************)
EXTENDS Integers, Sequences, FiniteSets, TLC

VARIABLES
    pc,                     \* position of the main script
    s3_client,              \* handle returned by create_connection_and_test
    exc,                    \* exception that ended the run, "none" if none
    stored,                 \* records held by the bucket under the prefix
    todo,                   \* records the paginator has not delivered yet
    page,                   \* object_response_itr: the page being folded
    i,                      \* next index into page.DeleteMarkers
    j,                      \* next index into page.Versions
    npages,                 \* pages delivered in this run (saturates at 2)
    delete_marker_count,
    delete_marker_size,
    versioned_object_count,
    versioned_object_size,
    current_object_count,
    current_object_size,
    report,                 \* lines printed after the loop
    run,                    \* which run of the script this is
    prev,                   \* outcome of the previous completed run
    fmt_in,                 \* argument of calculate_size
    fmt_out                 \* its outcome

vars == <<pc, s3_client, exc, stored, todo, page, i, j, npages,
          delete_marker_count, delete_marker_size, versioned_object_count,
          versioned_object_size, current_object_count, current_object_size,
          report, run, prev, fmt_in, fmt_out>>

mainVars == <<pc, s3_client, exc, stored, todo, page, i, j, npages,
              delete_marker_count, delete_marker_size, versioned_object_count,
              versioned_object_size, current_object_count, current_object_size,
              report, run, prev>>

fmtVars == <<fmt_in, fmt_out>>

----------------------------------------------------------------------------
(* Bounds of the model *)

MaxDigits == 8          \* longest byte count drawn for calculate_size
MaxVersions == 2        \* version records stored in the bucket
MaxMarkers == 1         \* delete markers stored in the bucket
MaxKeys == 2            \* records per listing page

(* Program constants *)

Base == 1024
Decimals == 2
LastUnit == 6
MantissaBits == 53      \* significand of a Python float (IEEE-754 double)
DigitBits == 10         \* 1024 = 2^10

----------------------------------------------------------------------------
(* Arithmetic on digit sequences *)

RECURSIVE Norm(_)
Norm(s) == IF s # <<>> /\ s[1] = 0 THEN Norm(Tail(s)) ELSE s

Front(s) == SubSeq(s, 1, Len(s) - 1)

RECURSIVE ToInt(_)
ToInt(s) == IF s = <<>> THEN 0 ELSE ToInt(Front(s)) * Base + s[Len(s)]

RECURSIVE FromInt(_)
FromInt(n) == IF n = 0 THEN <<>> ELSE FromInt(n \div Base) \o <<n % Base>>

Zeros(n) == [k \in 1..n |-> 0]

Pow2(k) == CASE k = 0 -> 1 [] k = 1 -> 2 [] k = 2 -> 4 [] k = 3 -> 8
             [] k = 4 -> 16 [] k = 5 -> 32 [] k = 6 -> 64 [] k = 7 -> 128
             [] k = 8 -> 256 [] k = 9 -> 512 [] OTHER -> 1024

DigitToBits(d) == [k \in 1..DigitBits |-> (d \div Pow2(DigitBits - k)) % 2]

RECURSIVE ToBits(_)
ToBits(s) == IF s = <<>> THEN <<>> ELSE DigitToBits(s[1]) \o ToBits(Tail(s))

RECURSIVE BitsToInt(_)
BitsToInt(b) == IF b = <<>> THEN 0 ELSE 2 * BitsToInt(Front(b)) + b[Len(b)]

RECURSIVE FromBits(_)
FromBits(b) ==
    IF b = <<>> THEN <<>>
    ELSE <<BitsToInt(SubSeq(b, 1, DigitBits))>>
             \o FromBits(SubSeq(b, DigitBits + 1, Len(b)))

RECURSIVE LeadingZeros(_)
LeadingZeros(b) ==
    IF b = <<>> \/ b[1] = 1 THEN 0 ELSE 1 + LeadingZeros(Tail(b))

RECURSIVE Increment(_)
Increment(b) ==
    IF b = <<>> THEN <<>>
    ELSE IF b[Len(b)] = 0 THEN Front(b) \o <<1>>
    ELSE Increment(Front(b)) \o <<0>>

(* Round the bit string b to MantissaBits significant bits by dropping its *)
(* last drop bits: to nearest, ties to even.                               *)
RoundKept(kept, lost) ==
    IF lost[1] = 1 /\ ((\E k \in 2..Len(lost) : lost[k] = 1) \/ kept[Len(kept)] = 1)
    THEN Increment(kept)
    ELSE kept

RoundBits(b, drop) ==
    IF drop <= 0 THEN b
    ELSE RoundKept(SubSeq(b, 1, Len(b) - drop), SubSeq(b, Len(b) - drop + 1, Len(b)))
             \o Zeros(drop)

SignificantBits(b) == Len(b) - LeadingZeros(b)

RoundSignificant(b) == RoundBits(b, SignificantBits(b) - MantissaBits)

(* The nearest double to an integer, ties to even: the conversion Python's *)
(* true division applies to an int operand.                                *)
RoundToDouble(s) == Norm(FromBits(RoundSignificant(ToBits(<<0>> \o s))))

RECURSIVE MulSmall(_, _, _)
MulSmall(s, m, carry) ==
    IF s = <<>> THEN (IF carry = 0 THEN <<>> ELSE <<carry>>)
    ELSE LET t == s[Len(s)] * m + carry
         IN  MulSmall(Front(s), m, t \div Base) \o <<t % Base>>

----------------------------------------------------------------------------
(* Python values: an int, or a float digits / 1024^frac *)

PyInt(s) == [kind |-> "int", digits |-> s, frac |-> 0]
PyFloat(s, k) == [kind |-> "float", digits |-> s, frac |-> k]

(* size // 1024 > 0 *)
FloorDivPositive(v) == Len(v.digits) - v.frac >= 2

(* size / 1024 *)
TrueDivide(v) ==
    IF v.kind = "int" THEN PyFloat(RoundToDouble(v.digits), 1)
    ELSE PyFloat(v.digits, v.frac + 1)

RECURSIVE ScaleLoop(_, _)
ScaleLoop(v, count) ==
    IF FloorDivPositive(v) THEN ScaleLoop(TrueDivide(v), count + 1)
    ELSE [size |-> v, count |-> count]

Pow10(k) == IF k = 2 THEN 100 ELSE IF k = 1 THEN 10 ELSE 1

PadLeft(p, n) == IF Len(p) >= n THEN p ELSE Zeros(n - Len(p)) \o p

(* whole + 0.rest (rest in base-1024 digits) rounded to an integer, ties   *)
(* to even                                                                 *)
RoundHalfEven(whole, rest) ==
    IF /\ rest # <<>>
       /\ \/ rest[1] > Base \div 2
          \/ /\ rest[1] = Base \div 2
             /\ ((\E k \in 2..Len(rest) : rest[k] # 0) \/ whole % 2 = 1)
    THEN whole + 1
    ELSE whole

SplitAndRound(q, frac) ==
    RoundHalfEven(ToInt(SubSeq(q, 1, Len(q) - frac)),
                  SubSeq(q, Len(q) - frac + 1, Len(q)))

(* round(size, 2): an int is returned as it is; a float is rounded to the  *)
(* nearest multiple of 0.01 of its exact value, ties to even.  The result  *)
(* carries the number of hundredths.                                       *)
Round2(v) ==
    IF v.kind = "int" THEN [kind |-> "int", n |-> ToInt(v.digits)]
    ELSE [kind |-> "float",
          n |-> SplitAndRound(PadLeft(MulSmall(v.digits, Pow10(Decimals), 0), v.frac),
                              v.frac)]

DigitStr(d) == CASE d = 0 -> "0" [] d = 1 -> "1" [] d = 2 -> "2" [] d = 3 -> "3"
                 [] d = 4 -> "4" [] d = 5 -> "5" [] d = 6 -> "6" [] d = 7 -> "7"
                 [] d = 8 -> "8" [] OTHER -> "9"

RECURSIVE IntStr(_)
IntStr(n) == IF n < 10 THEN DigitStr(n) ELSE IntStr(n \div 10) \o DigitStr(n % 10)

Fraction(cents) ==
    IF cents % 10 = 0 THEN DigitStr(cents \div 10)
    ELSE DigitStr(cents \div 10) \o DigitStr(cents % 10)

(* str(float(...)): the int converted before it is printed *)
PyStrAsFloat(r) ==
    IF r.kind = "int" THEN IntStr(r.n) \o ".0"
    ELSE IntStr(r.n \div Pow10(Decimals)) \o "." \o Fraction(r.n % Pow10(Decimals))

(* str(): an int prints its digits, a float its shortest decimal form,     *)
(* which always has a decimal part.                                        *)
PyStr(r) ==
    IF r.kind = "int" THEN IntStr(r.n)
    ELSE IntStr(r.n \div Pow10(Decimals)) \o "." \o Fraction(r.n % Pow10(Decimals))

size_table == [k \in 0..LastUnit |->
                 CASE k = 0 -> "Bs" [] k = 1 -> "KBs" [] k = 2 -> "MBs"
                   [] k = 3 -> "GBs" [] k = 4 -> "TBs" [] k = 5 -> "PBs"
                   [] OTHER -> "EBs"]

(* The return statement: the table lookup raises KeyError for a count the *)
(* table does not hold.                                                    *)
Compose(count, shown, _size_table) ==
    IF count \in DOMAIN _size_table
    THEN [raises |-> "none", value |-> PyStr(shown) \o " " \o _size_table[count],
          count |-> count, shown |-> shown]
    ELSE [raises |-> "KeyError", value |-> "", count |-> count, shown |-> shown]

Render(scaled, _size_table) ==
    Compose(scaled.count, Round2(scaled.size), _size_table)

(* calculate_size(size, _size_table): the string returned, or the KeyError *)
(* of the table lookup.  count and shown expose the loop's division count  *)
(* and the rounded number for inspection.                                  *)
calculate_size(size, _size_table) ==
    Render(ScaleLoop(PyInt(size), 0), _size_table)

----------------------------------------------------------------------------
(* Byte counts drawn for calculate_size: every count of one digit taken    *)
(* from the digits below, and longer ones made of a leading digit, a run   *)
(* of equal digits and a last digit, which places them at, just above and  *)
(* just below the unit boundaries and the rounding boundaries.             *)

TopDigits == {1, 63, 1023}
FillDigits == {0, 1023}
LowDigits == {0, 1, 128, 512, 1018, 1019, 1023}

FmtInputs ==
    {<<>>}
    \cup {<<d>> : d \in (TopDigits \cup LowDigits) \ {0}}
    \cup {<<t>> \o [k \in 1..(n - 2) |-> f] \o <<l>> :
            t \in TopDigits, f \in FillDigits, l \in LowDigits, n \in 2..MaxDigits}

NoOutcome == [raises |-> "pending", value |-> "", count |-> 0,
              shown |-> [kind |-> "int", n |-> 0]]

----------------------------------------------------------------------------
(* The bucket and the listing pages *)

(* Version records as the listing returns them.  IsLatest is "True" or     *)
(* "False" in a well-formed record; "None" stands for any value that is    *)
(* neither, "missing" for a record without the key.                        *)
VersionKinds ==
    {[IsLatest |-> "True", Size |-> 100], [IsLatest |-> "True", Size |-> 200],
     [IsLatest |-> "False", Size |-> 50], [IsLatest |-> "None", Size |-> 25],
     [IsLatest |-> "missing", Size |-> 25]}

DeleteMarker == [Key |-> "key"]

RECURSIVE Total(_, _)
Total(f, S) ==
    IF S = {} THEN 0
    ELSE LET x == CHOOSE x \in S : TRUE IN f[x] + Total(f, S \ {x})

Buckets ==
    {b \in [markers : 0..MaxMarkers, versions : [VersionKinds -> 0..MaxVersions]] :
        Total(b.versions, VersionKinds) <= MaxVersions}

Occurrences(seq, v) == Cardinality({k \in 1..Len(seq) : seq[k] = v})

VersionLists == UNION {[1..n -> VersionKinds] : n \in 0..MaxKeys}

(* The pages the paginator can deliver next when t is left to deliver: at  *)
(* most MaxKeys records, either list possibly absent from the response.    *)
PagesOf(t) ==
    {[hasDeleteMarkers |-> hd, DeleteMarkers |-> [k \in 1..n |-> DeleteMarker],
      hasVersions |-> hv, Versions |-> vs] :
        <<hd, hv, n, vs>> \in
            {q \in BOOLEAN \X BOOLEAN \X (0..t.markers) \X VersionLists :
                /\ q[3] + Len(q[4]) <= MaxKeys
                /\ q[1] \/ q[3] = 0
                /\ q[2] \/ q[4] = <<>>
                /\ \A v \in VersionKinds : Occurrences(q[4], v) <= t.versions[v]}}

Deliver(t, p) ==
    [markers |-> t.markers - Len(p.DeleteMarkers),
     versions |-> [v \in VersionKinds |-> t.versions[v] - Occurrences(p.Versions, v)]]

NothingLeft(t) == t.markers = 0 /\ \A v \in VersionKinds : t.versions[v] = 0

IsBlank(p) == p.DeleteMarkers = <<>> /\ p.Versions = <<>>

NoPage == [hasDeleteMarkers |-> FALSE, DeleteMarkers |-> <<>>,
           hasVersions |-> FALSE, Versions |-> <<>>]

(* 'DeleteMarkers' in object_response_itr *)
HasDeleteMarkers(p) == p.hasDeleteMarkers

(* The Versions block nested under the DeleteMarkers test *)
HasVersionsNested(p) == p.hasDeleteMarkers /\ p.hasVersions

(* 'Versions' in object_response_itr *)
HasVersions(p) == p.hasVersions

MarkersFolded(p, a) == ~HasDeleteMarkers(p) \/ a > Len(p.DeleteMarkers)
VersionsFolded(p, b) == ~HasVersions(p) \/ b > Len(p.Versions)
PageFolded(p, a, b) == MarkersFolded(p, a) /\ VersionsFolded(p, b)

(* The two tests exchanged *)
ClassifyInverted(version) ==
    IF version.IsLatest = "missing" THEN "KeyError"
    ELSE IF version.IsLatest = "True" THEN "versioned"
    ELSE IF version.IsLatest = "False" THEN "current"
    ELSE "skipped"

(* The branch the loop body takes for one version record *)
Classify(version) ==
    IF version.IsLatest = "missing" THEN "KeyError"
    ELSE IF version.IsLatest = "False" THEN "versioned"
    ELSE IF version.IsLatest = "True" THEN "current"
    ELSE "skipped"

Totals == <<delete_marker_count, delete_marker_size, versioned_object_count,
            versioned_object_size, current_object_count, current_object_size>>

NoPrev == [done |-> FALSE, totals |-> <<0, 0, 0, 0, 0, 0>>, single |-> FALSE,
           report |-> <<>>]

Runs == {1, 2}

----------------------------------------------------------------------------
(* create_connection_and_test: what it returns or raises, given what the   *)
(* list_buckets and head_bucket calls of the storage client do.            *)

CallOutcomes == {"ok", "ClientError", "OtherError"}

create_connection_and_test(list_buckets, head_bucket) ==
    IF list_buckets = "ClientError" THEN [raises |-> "none", returns |-> "None"]
    ELSE IF list_buckets # "ok" THEN [raises |-> list_buckets, returns |-> "unset"]
    ELSE IF head_bucket = "ClientError" THEN [raises |-> "Exception", returns |-> "unset"]
    ELSE IF head_bucket # "ok" THEN [raises |-> head_bucket, returns |-> "unset"]
    ELSE [raises |-> "none", returns |-> "client"]

----------------------------------------------------------------------------
(* The main script *)

IdleFmt == fmt_in = <<>> /\ fmt_out = NoOutcome

Init ==
    /\ pc = "connect"
    /\ s3_client = "unset"
    /\ exc = "none"
    /\ stored \in Buckets
    /\ todo = stored
    /\ page = NoPage
    /\ i = 1
    /\ j = 1
    /\ npages = 0
    /\ delete_marker_count = 0
    /\ delete_marker_size = 0
    /\ versioned_object_count = 0
    /\ versioned_object_size = 0
    /\ current_object_count = 0
    /\ current_object_size = 0
    /\ report = <<>>
    /\ run = 1
    /\ prev = NoPrev
    /\ IdleFmt

Raise(e) ==
    /\ pc' = "failed"
    /\ exc' = e

Line(text, value) == [text |-> text, value |-> value]

Cut(full, n) == [lines |-> SubSeq(full, 1, n), complete |-> n = Len(full)]

(* The lines the script prints after the loop, in order; a calculate_size  *)
(* call that raises cuts the report short.                                 *)
PrintReport(markers, current, cs, versioned, vs, ts) ==
    Cut(<<Line("$ Total Delete markers: ", IntStr(markers)),
          Line("$ Number of Current objects: ", IntStr(current)),
          Line("$ Current Objects size: ", cs.value),
          Line("$ Number of Non-current objects: ", IntStr(versioned)),
          Line("$ Non-current Objects size: ", vs.value),
          Line("$ Total size Current + Non-current: ", ts.value)>>,
        IF cs.raises # "none" THEN 2
        ELSE IF vs.raises # "none" THEN 4
        ELSE IF ts.raises # "none" THEN 5
        ELSE 6)

ReportLines ==
    PrintReport(delete_marker_count, current_object_count,
                calculate_size(FromInt(current_object_size), size_table),
                versioned_object_count,
                calculate_size(FromInt(versioned_object_size), size_table),
                calculate_size(FromInt(versioned_object_size + current_object_size),
                               size_table))

Finish(r) ==
    /\ report' = r.lines
    /\ IF r.complete THEN pc' = "done" /\ UNCHANGED exc ELSE Raise("KeyError")

(* s3_client = create_connection_and_test(...) *)
Connect ==
    /\ pc = "connect"
    /\ \E lb \in CallOutcomes, hb \in CallOutcomes :
          LET r == create_connection_and_test(lb, hb)
          IN  IF r.raises # "none"
              THEN Raise(r.raises) /\ UNCHANGED s3_client
              ELSE pc' = "paginator" /\ s3_client' = r.returns /\ UNCHANGED exc
    /\ UNCHANGED <<stored, todo, page, i, j, npages, Totals, report, run,
                   prev, fmtVars>>

(* s3_client.get_paginator(...), then the totals are set to zero *)
GetPaginator ==
    /\ pc = "paginator"
    /\ IF s3_client = "None"
       THEN Raise("AttributeError") /\ UNCHANGED Totals
       ELSE /\ pc' = "fetch"
            /\ delete_marker_count' = 0
            /\ delete_marker_size' = 0
            /\ versioned_object_count' = 0
            /\ versioned_object_size' = 0
            /\ current_object_count' = 0
            /\ current_object_size' = 0
            /\ UNCHANGED exc
    /\ UNCHANGED <<s3_client, stored, todo, page, i, j, npages, report,
                   run, prev, fmtVars>>

(* The for loop takes the next page from the paginator.  A page without   *)
(* records is what a listing with nothing to list consists of, so it can   *)
(* only come first.                                                        *)
NextPage ==
    /\ pc = "fetch"
    /\ \E p \in PagesOf(todo) :
          /\ IsBlank(p) => npages = 0
          /\ page' = p
          /\ todo' = Deliver(todo, p)
          /\ pc' = IF PageFolded(p, 1, 1) THEN "fetch" ELSE "fold"
    /\ i' = 1
    /\ j' = 1
    /\ npages' = IF npages < 2 THEN npages + 1 ELSE npages
    /\ UNCHANGED <<s3_client, exc, stored, Totals, report, run, prev, fmtVars>>

(* The error caught around the loop, which then ends as if exhausted *)
PaginatorErrorSwallowed ==
    /\ pc = "fetch"
    /\ Finish(ReportLines)
    /\ UNCHANGED <<s3_client, stored, todo, page, i, j, npages, Totals,
                   run, prev, fmtVars>>

(* The paginator raises instead of delivering a page *)
PaginatorRaises ==
    /\ pc = "fetch"
    /\ Raise("ClientError")
    /\ UNCHANGED <<s3_client, stored, todo, page, i, j, npages, Totals,
                   report, run, prev, fmtVars>>

(* One iteration of the loop over page['DeleteMarkers'] *)
FoldDeleteMarker ==
    /\ pc = "fold"
    /\ ~MarkersFolded(page, i)
    /\ delete_marker_count' = delete_marker_count + 1
    /\ i' = i + 1
    /\ pc' = IF PageFolded(page, i + 1, j) THEN "fetch" ELSE "fold"
    /\ UNCHANGED <<s3_client, exc, stored, todo, page, j, npages,
                   delete_marker_size, versioned_object_count,
                   versioned_object_size, current_object_count,
                   current_object_size, report, run, prev, fmtVars>>

(* One iteration of the loop over page['Versions'] *)
FoldVersion ==
    /\ pc = "fold"
    /\ MarkersFolded(page, i)
    /\ ~VersionsFolded(page, j)
    /\ LET version == page.Versions[j]
           branch == Classify(version)
       IN  /\ versioned_object_count' =
                 IF branch = "versioned" THEN versioned_object_count + 1
                 ELSE versioned_object_count
           /\ versioned_object_size' =
                 IF branch = "versioned" THEN versioned_object_size + version.Size
                 ELSE versioned_object_size
           /\ current_object_count' =
                 IF branch = "current" THEN current_object_count + 1
                 ELSE current_object_count
           /\ current_object_size' =
                 IF branch = "current" THEN current_object_size + version.Size
                 ELSE current_object_size
           /\ IF branch = "KeyError"
              THEN Raise("KeyError") /\ UNCHANGED j
              ELSE /\ j' = j + 1
                   /\ pc' = IF PageFolded(page, i, j + 1) THEN "fetch" ELSE "fold"
                   /\ UNCHANGED exc
    /\ UNCHANGED <<s3_client, stored, todo, page, i, npages,
                   delete_marker_count, delete_marker_size, report, run, prev,
                   fmtVars>>

(* The paginator is exhausted: the loop ends, the report is printed and    *)
(* the script announces its completion.                                    *)
Report ==
    /\ pc = "fetch"
    /\ NothingLeft(todo)
    /\ Finish(ReportLines)
    /\ UNCHANGED <<s3_client, stored, todo, page, i, j, npages, Totals,
                   run, prev, fmtVars>>

(* The script is started again on the same bucket *)
Rerun ==
    /\ pc \in {"done", "failed"}
    /\ run + 1 \in Runs
    /\ run' = run + 1
    /\ prev' = IF pc = "done"
               THEN [done |-> TRUE, totals |-> Totals, single |-> npages <= 1,
                     report |-> report]
               ELSE prev
    /\ pc' = "connect"
    /\ s3_client' = "unset"
    /\ exc' = "none"
    /\ todo' = stored
    /\ page' = NoPage
    /\ i' = 1
    /\ j' = 1
    /\ npages' = 0
    /\ delete_marker_count' = 0
    /\ delete_marker_size' = 0
    /\ versioned_object_count' = 0
    /\ versioned_object_size' = 0
    /\ current_object_count' = 0
    /\ current_object_size' = 0
    /\ report' = <<>>
    /\ UNCHANGED <<stored, fmtVars>>

Next ==
    \/ Connect
    \/ GetPaginator
    \/ NextPage
    \/ PaginatorRaises
    \/ FoldDeleteMarker
    \/ FoldVersion
    \/ Report
    \/ Rerun

Spec == Init /\ [][Next]_vars

----------------------------------------------------------------------------
(* calculate_size applied to a drawn byte count *)

IdleMain ==
    /\ pc = "format"
    /\ s3_client = "unset"
    /\ exc = "none"
    /\ stored = [markers |-> 0, versions |-> [v \in VersionKinds |-> 0]]
    /\ todo = stored
    /\ page = NoPage
    /\ i = 1
    /\ j = 1
    /\ npages = 0
    /\ delete_marker_count = 0
    /\ delete_marker_size = 0
    /\ versioned_object_count = 0
    /\ versioned_object_size = 0
    /\ current_object_count = 0
    /\ current_object_size = 0
    /\ report = <<>>
    /\ run = 1
    /\ prev = NoPrev

InitFmt ==
    /\ IdleMain
    /\ fmt_in \in FmtInputs
    /\ fmt_out = NoOutcome

Format ==
    /\ fmt_out.raises = "pending"
    /\ fmt_out' = calculate_size(fmt_in, size_table)
    /\ UNCHANGED <<fmt_in, mainVars>>

NextFmt == Format

SpecFmt == InitFmt /\ [][NextFmt]_vars

----------------------------------------------------------------------------
(* Reference quantities, computed from the bucket's records *)

Malformed(v) == v.IsLatest \notin {"True", "False"}

WellFormed(b) == \A v \in VersionKinds : Malformed(v) => b.versions[v] = 0

RefCount(b, flag) ==
    Total([v \in VersionKinds |-> IF v.IsLatest = flag THEN b.versions[v] ELSE 0],
          VersionKinds)

RefSize(b, flag) ==
    Total([v \in VersionKinds |->
             IF v.IsLatest = flag THEN b.versions[v] * v.Size ELSE 0],
          VersionKinds)

(* Records the loop has iterated over so far in this run *)
MarkersObserved ==
    (stored.markers - todo.markers) - (Len(page.DeleteMarkers) - (i - 1))

VersionsObserved ==
    Total([v \in VersionKinds |-> stored.versions[v] - todo.versions[v]], VersionKinds)
        - (Len(page.Versions) - (j - 1))

Formatted(n) == calculate_size(FromInt(n), size_table).value

Returned == fmt_out.raises # "pending"

(* floor(log_1024 n) of a byte count n >= 1 written in base 1024 *)
FloorLog1024(s) == IF s = <<>> THEN 0 ELSE Len(s) - 1

----------------------------------------------------------------------------
(* C1: a run over a bucket holding a version record whose IsLatest is      *)
(* neither true nor false never prints a totals report nor completes: it   *)
(* is aborted with an error.                                               *)
C1_MalformedAborts ==
    (report # <<>> \/ pc = "done") => WellFormed(stored)

(* C2: while the loop runs and at its end, current count + non-current     *)
(* count equals the number of version records iterated over so far, and    *)
(* the delete-marker count equals the number of delete markers iterated    *)
(* over so far.                                                            *)
C2_CountsMatchObserved ==
    pc \in {"fetch", "fold", "done"} =>
        /\ current_object_count + versioned_object_count = VersionsObserved
        /\ delete_marker_count = MarkersObserved

(* C3: for a bucket of well-formed records (the empty one included), the   *)
(* totals of a completed run are the reference fold of the records: the    *)
(* markers counted and adding no bytes, the current and non-current        *)
(* counts and sizes, and the report prints them with the combined size     *)
(* being the sum of the two sizes.                                         *)
C3_TotalsAreReferenceFold ==
    (pc = "done" /\ WellFormed(stored)) =>
        /\ delete_marker_count = stored.markers
        /\ delete_marker_size = 0
        /\ current_object_count = RefCount(stored, "True")
        /\ current_object_size = RefSize(stored, "True")
        /\ versioned_object_count = RefCount(stored, "False")
        /\ versioned_object_size = RefSize(stored, "False")
        /\ report =
             <<Line("$ Total Delete markers: ", IntStr(stored.markers)),
               Line("$ Number of Current objects: ", IntStr(RefCount(stored, "True"))),
               Line("$ Current Objects size: ", Formatted(RefSize(stored, "True"))),
               Line("$ Number of Non-current objects: ",
                    IntStr(RefCount(stored, "False"))),
               Line("$ Non-current Objects size: ", Formatted(RefSize(stored, "False"))),
               Line("$ Total size Current + Non-current: ",
                    Formatted(RefSize(stored, "True") + RefSize(stored, "False")))>>

C3_Witness ==
    /\ pc = "done"
    /\ WellFormed(stored)
    /\ stored.markers >= 1
    /\ RefCount(stored, "True") >= 1
    /\ RefCount(stored, "False") >= 1
    /\ npages >= 2

(* C4: two completed runs over the same records, paginated in any two      *)
(* ways, end with the same six totals and the same report.                 *)
C4_PaginationIndependent ==
    (pc = "done" /\ prev.done) =>
        /\ Totals = prev.totals
        /\ report = prev.report

C4_Witness ==
    /\ pc = "done"
    /\ prev.done
    /\ prev.single
    /\ npages >= 2
    /\ ~HasDeleteMarkers(page)
    /\ stored.markers >= 1
    /\ RefCount(stored, "True") + RefCount(stored, "False") >= 1

(* C5: for a byte count n < 1024^7, calculate_size returns a string whose  *)
(* unit index is the number of divisions performed, and that index is      *)
(* floor(log_1024 n) for n >= 1 and 0 for n = 0.                           *)
C5_UnitIndexIsFloorLog ==
    (Returned /\ Len(fmt_in) <= LastUnit + 1) =>
        /\ fmt_out.raises = "none"
        /\ fmt_out.count = FloorLog1024(fmt_in)

(* C6 as stated: the number is always printed with a decimal part, so an   *)
(* integer n below 1024 is shown as "<n>.0 Bs", 1024 as "1.0 KBs" and      *)
(* 1024*1024 as "1.0 MBs".                                                 *)
C6_AlwaysDecimalPart ==
    Returned =>
        /\ Len(fmt_in) <= 1 => fmt_out.value = IntStr(ToInt(fmt_in)) \o ".0 Bs"
        /\ fmt_in = <<1, 0>> => fmt_out.value = "1.0 KBs"
        /\ fmt_in = <<1, 0, 0>> => fmt_out.value = "1.0 MBs"

(* C6 amended: the number is printed with a decimal part only when at      *)
(* least one division was performed; an integer n below 1024 is shown as   *)
(* "<n> Bs" (1023 as "1023 Bs", 0 as "0 Bs"), 1024 as "1.0 KBs" and        *)
(* 1024*1024 as "1.0 MBs".                                                 *)
C6_DecimalPartAfterDivision ==
    Returned =>
        /\ Len(fmt_in) <= 1 =>
              /\ fmt_out.value = IntStr(ToInt(fmt_in)) \o " Bs"
              /\ fmt_out.shown.kind = "int"
        /\ Len(fmt_in) >= 2 => fmt_out.shown.kind = "float"
        /\ fmt_in = <<1023>> => fmt_out.value = "1023 Bs"
        /\ fmt_in = <<>> => fmt_out.value = "0 Bs"
        /\ fmt_in = <<1, 0>> => fmt_out.value = "1.0 KBs"
        /\ fmt_in = <<1, 0, 0>> => fmt_out.value = "1.0 MBs"

C6_Witness ==
    /\ fmt_in = <<1023>>
    /\ fmt_out.raises = "none"
    /\ fmt_out.value = "1023 Bs"

(* C7: for a byte count n >= 1024^7, calculate_size does not raise the     *)
(* lookup error of the unit table: it returns a string.                    *)
C7_NoLookupError ==
    (Returned /\ Len(fmt_in) >= LastUnit + 2) => fmt_out.raises = "none"

(* C8: an error raised by the paginator ends the run without a report,     *)
(* and a report or the completion line is printed only once the paginator  *)
(* has delivered every record, every page has been folded and no error     *)
(* was raised.                                                             *)
C8_ReportOnlyAfterFullListing ==
    /\ exc = "ClientError" => (pc = "failed" /\ report = <<>>)
    /\ (report # <<>> \/ pc = "done") =>
          /\ NothingLeft(todo)
          /\ PageFolded(page, i, j)
          /\ exc \in {"none", "KeyError"}
          /\ pc = "done" => exc = "none" /\ Len(report) = 6

C8_Witness ==
    /\ pc = "failed"
    /\ exc = "ClientError"
    /\ npages >= 1
    /\ delete_marker_count >= 1
    /\ current_object_count + versioned_object_count >= 1
    /\ report = <<>>

(* C9: for a byte count n with 1 <= n < 1024^7, the number calculate_size  *)
(* displays (after rounding to 2 decimals) is at least 1 and strictly      *)
(* less than 1024.                                                         *)
C9_DisplayedBelow1024 ==
    (Returned /\ Len(fmt_in) \in 1..(LastUnit + 1)) =>
        /\ fmt_out.raises = "none"
        /\ IF fmt_out.shown.kind = "int"
           THEN fmt_out.shown.n >= 1 /\ fmt_out.shown.n < Base
           ELSE /\ fmt_out.shown.n >= Pow10(Decimals)
                /\ fmt_out.shown.n < Base * Pow10(Decimals)

(* C10: create_connection_and_test never returns None, so the script never *)
(* asks a None handle for a paginator.                                     *)
C10_NeverReturnsNone ==
    /\ s3_client # "None"
    /\ exc # "AttributeError"

====
